---- MODULE Spec2Model ----
(***************************************************************************)
(* Mail-session lifecycle of inboxed.email: the IDLE watch supervisor and  *)
(* its idle_loop tasks (src-tauri/src/email/idle.rs); OAuth2 credential    *)
(* resolution, get_active_client with the client cache, and the email id   *)
(* parser (src-tauri/src/commands/email.rs).                               *)
(*                                                                         *)
(* Strings are TLA+ strings; registry keys are built and matched the way   *)
(* the code does it (format!("{}:{}"), starts_with).                       *)
(***************************************************************************)
EXTENDS Integers, Sequences, FiniteSets, TLC

(***************************************************************************)
(* Bounds of the model.                                                    *)
(***************************************************************************)
\* concurrent callers of the IdleManager (tauri commands run concurrently)
NumCallers == 2
\* how many entries of MONITORED_FOLDERS a start_idle call walks
NumFolders == 2
\* watch channels (one per spawned idle_loop) created in one behaviour
MaxChannels == 4
\* new-mail events the event sink records in one behaviour
MaxEvents == 1
\* concurrent credential resolutions
NumResolvers == 2
\* the clock runs from 0 to MaxNow seconds
MaxNow == 1
\* successful refreshes at the token endpoint in one behaviour
MaxRefreshes == 1

(***************************************************************************)
(* Program constants.                                                      *)
(***************************************************************************)
\* idle.rs:25
MONITORED_FOLDERS == <<"INBOX", "Sent", "Drafts", "Trash", "Spam">>

\* Account ids as the account directory hands them out.  The composite
\* address "{account_id}:{folder}:{uid}" is split at its first ':' , so an
\* account id holds no ':' .  "a" is a proper prefix of "ab".
AccountIds == {"a", "ab"}

\* Account.auth_type of each account
auth_type(a) == IF a = "a" THEN "oauth2" ELSE "password"

\* Option<T>: None is the empty sequence, Some(x) the sequence of x alone
None == << >>
Some(x) == <<x>>

\* Account.email of each account
email_of(a) == a \o "@example.com"

Callers == 1..NumCallers
Resolvers == 1..NumResolvers
Folders == {MONITORED_FOLDERS[i] : i \in 1..NumFolders}

VARIABLES
    shutdown_senders,  \* IdleManager.shutdown_senders: key -> channel id
    chan,              \* watch channels and the idle_loop task bound to each
    call,              \* each caller's position inside an IdleManager method
    events,            \* what app.emit("email:new_mail", ..) has handed to the sink
    account_tokens,    \* credential store: account-scoped TokenSet slots
    legacy_tokens,     \* credential store: legacy single-account slot
    app_passwords,     \* credential store: app passwords
    now,               \* Utc::now(), in seconds
    issued,            \* token sets the token endpoint has handed out
    resolver,          \* each resolve_oauth2_credentials call in progress
    clients,           \* AccountManager's session cache: account id -> handle
    handles,           \* every ImapClient that ImapClient::new has built
    task,              \* each get_active_client call in progress
    codec,             \* an email id being encoded and decoded
    wait_result        \* history: what idle_wait last returned to each idle_loop

idleVars == <<shutdown_senders, chan, call, events>>
storeVars == <<account_tokens, legacy_tokens, app_passwords>>
credVars == <<now, issued, resolver>>
sessionVars == <<clients, handles, task>>
vars == <<shutdown_senders, chan, call, events, account_tokens, legacy_tokens,
          app_passwords, now, issued, resolver, clients, handles, task, codec,
          wait_result>>

(***************************************************************************)
(* String helpers, as the standard library computes them.                  *)
(***************************************************************************)
\* str::starts_with
starts_with(s, p) == Len(p) <= Len(s) /\ SubSeq(s, 1, Len(p)) = p

\* the key without the account id
folder_key_folder_only(account_id, folder) == folder

\* format!("{}:{}", account_id, folder)
folder_key(account_id, folder) == account_id \o ":" \o folder

\* the filter comparing the whole key with the account id
key_matches_exact(k, account_id) == k = account_id

\* the filter without the ':' after the account id
key_matches_no_colon(k, account_id) == starts_with(k, account_id)

\* the filter of stop_idle: k.starts_with(&format!("{}:", account_id))
key_matches(k, account_id) == starts_with(k, account_id \o ":")

(***************************************************************************)
(* Credential store reads used by the watcher (auth::storage).             *)
(***************************************************************************)
\* get_account_tokens(account_id): Ok(tokens) or Err
get_account_tokens(account_id) == account_tokens[account_id]

\* get_app_password(account_id): Ok(password) or Err
get_app_password(account_id) == app_passwords[account_id]

(***************************************************************************)
(* IdleManager                                                             *)
(***************************************************************************)
EmptyRegistry == [k \in {} |-> 0]

\* guard: the call holds the MutexGuard of shutdown_senders
IdleCall ==
    [pc |-> "idle", op |-> "none", account_id |-> "", i |-> 0, tx |-> 0,
     guard |-> FALSE]

\* tx.send(true) on every channel in ws
SendShutdown(ch, ws) ==
    [w \in DOMAIN ch |-> IF w \in ws THEN [ch[w] EXCEPT !.shutdown = TRUE] ELSE ch[w]]

\* keys_to_remove of stop_idle (idle.rs:104-108)
keys_to_remove(senders, account_id) ==
    {k \in DOMAIN senders : key_matches(k, account_id)}

\* the body of stop_idle under the registry lock (idle.rs:101-114)
StopIdleBody(account_id) ==
    LET gone == keys_to_remove(shutdown_senders, account_id)
        kept == DOMAIN shutdown_senders \ gone
    IN  /\ chan' = SendShutdown(chan, {shutdown_senders[k] : k \in gone})
        /\ shutdown_senders' = [k \in kept |-> shutdown_senders[k]]

\* senders.insert(folder_key, shutdown_tx): an entry already under the key is
\* replaced and its sender dropped, which sends nothing (idle.rs:79)
RegistryInsert(senders, key, tx) ==
    [k \in DOMAIN senders \cup {key} |-> IF k = key THEN tx ELSE senders[k]]

\* channels still to be created by start_idle calls in progress
Pending ==
    LET left(c) == IF call[c].pc = "start_stop" THEN NumFolders
                   ELSE IF call[c].pc = "insert" THEN NumFolders - call[c].i + 1
                   ELSE IF call[c].pc = "spawn" THEN NumFolders - call[c].i
                   ELSE 0
        sum[n \in 0..NumCallers] == IF n = 0 THEN 0 ELSE sum[n - 1] + left(n)
    IN  sum[NumCallers]

CanCall(c) == call[c].pc \in {"idle", "done"}

\* a command handler calls start_idle (commands/email.rs:382)
CallStartIdle(c, a) ==
    /\ CanCall(c)
    /\ Len(chan) + Pending + NumFolders <= MaxChannels
    /\ call' = [call EXCEPT ![c] = [pc |-> "start_stop", op |-> "start_idle",
                                    account_id |-> a, i |-> 0, tx |-> 0,
                                    guard |-> FALSE]]
    /\ UNCHANGED <<shutdown_senders, chan, events>>
    /\ UNCHANGED <<storeVars, credVars, sessionVars, codec, wait_result>>

\* a command handler calls stop_idle (commands/email.rs:411)
CallStopIdle(c, a) ==
    /\ CanCall(c)
    /\ call' = [call EXCEPT ![c] = [pc |-> "stop_idle", op |-> "stop_idle",
                                    account_id |-> a, i |-> 0, tx |-> 0,
                                    guard |-> FALSE]]
    /\ UNCHANGED <<shutdown_senders, chan, events>>
    /\ UNCHANGED <<storeVars, credVars, sessionVars, codec, wait_result>>

\* process shutdown calls stop_all
CallStopAll(c) ==
    /\ CanCall(c)
    /\ call' = [call EXCEPT ![c] = [pc |-> "stop_all", op |-> "stop_all",
                                    account_id |-> "", i |-> 0, tx |-> 0,
                                    guard |-> FALSE]]
    /\ UNCHANGED <<shutdown_senders, chan, events>>
    /\ UNCHANGED <<storeVars, credVars, sessionVars, codec, wait_result>>

\* self.shutdown_senders.lock().await can return for call c: no other call
\* holds the guard (idle.rs:78, 101, 119)
RegistryAvailable(c) == \A d \in Callers \ {c} : ~call[d].guard

\* the positions from which a call locks the registry
RegistryPcs == {"start_stop", "insert", "stop_idle", "stop_all"}

\* self.shutdown_senders.lock().await has returned and the statements under
\* the guard have not run yet
lock_registry(c) ==
    /\ call[c].pc \in RegistryPcs
    /\ ~call[c].guard
    /\ RegistryAvailable(c)
    /\ call' = [call EXCEPT ![c].guard = TRUE]
    /\ UNCHANGED <<shutdown_senders, chan, events>>
    /\ UNCHANGED <<storeVars, credVars, sessionVars, codec, wait_result>>

\* start_idle, first statement: self.stop_idle(&account_id).await (idle.rs:45)
start_idle(c) ==
    /\ call[c].pc = "start_stop"
    /\ RegistryAvailable(c)
    /\ StopIdleBody(call[c].account_id)
    /\ UNCHANGED events
    /\ call' = [call EXCEPT ![c].pc = "insert", ![c].i = 1, ![c].guard = FALSE]
    /\ UNCHANGED <<storeVars, credVars, sessionVars, codec, wait_result>>

\* start_folder_idle up to the release of the lock (idle.rs:73-80)
start_folder_idle(c) ==
    /\ call[c].pc = "insert"
    /\ RegistryAvailable(c)
    /\ LET tx == Len(chan) + 1
           folder == MONITORED_FOLDERS[call[c].i]
       IN  /\ chan' = Append(chan, [account_id |-> call[c].account_id,
                                    folder |-> folder,
                                    shutdown |-> FALSE,
                                    pc |-> "unspawned",
                                    creds |-> None])
           /\ shutdown_senders' =
                  RegistryInsert(shutdown_senders,
                                 folder_key(call[c].account_id, folder), tx)
           /\ call' = [call EXCEPT ![c].pc = "spawn", ![c].tx = tx,
                                    ![c].guard = FALSE]
    /\ UNCHANGED events
    /\ UNCHANGED <<storeVars, credVars, sessionVars, codec, wait_result>>

\* tokio::spawn(idle_loop(..)) and the loop step of start_idle (idle.rs:84-96, 48)
spawn_idle_loop(c) ==
    /\ call[c].pc = "spawn"
    /\ chan' = [chan EXCEPT ![call[c].tx].pc = "top"]
    /\ call' = [call EXCEPT ![c] =
                   IF call[c].i < NumFolders
                   THEN [call[c] EXCEPT !.pc = "insert", !.i = call[c].i + 1, !.tx = 0]
                   ELSE [call[c] EXCEPT !.pc = "done", !.i = 0, !.tx = 0]]
    /\ UNCHANGED <<shutdown_senders, events>>
    /\ UNCHANGED <<storeVars, credVars, sessionVars, codec, wait_result>>

\* stop_idle called directly (idle.rs:100-115)
stop_idle(c) ==
    /\ call[c].pc = "stop_idle"
    /\ RegistryAvailable(c)
    /\ StopIdleBody(call[c].account_id)
    /\ UNCHANGED events
    /\ call' = [call EXCEPT ![c].pc = "done", ![c].guard = FALSE]
    /\ UNCHANGED <<storeVars, credVars, sessionVars, codec, wait_result>>

\* stop_all (idle.rs:118-123)
stop_all(c) ==
    /\ call[c].pc = "stop_all"
    /\ RegistryAvailable(c)
    /\ chan' = SendShutdown(chan, {shutdown_senders[k] : k \in DOMAIN shutdown_senders})
    /\ shutdown_senders' = EmptyRegistry
    /\ UNCHANGED events
    /\ call' = [call EXCEPT ![c].pc = "done", ![c].guard = FALSE]
    /\ UNCHANGED <<storeVars, credVars, sessionVars, codec, wait_result>>

Ok(v) == [ok |-> TRUE, val |-> v]
Err(e) == [ok |-> FALSE, err |-> e]

\* ImapCredentials::OAuth2 { user, access_token }
OAuth2(user, access_token) ==
    [kind |-> "OAuth2", user |-> user, access_token |-> access_token]

\* NewMailEvent { account_id, folder } (idle.rs:13-16)
NewMailEvent(account_id, folder) == [account_id |-> account_id, folder |-> folder]

(***************************************************************************)
(* idle_loop: one task per channel                                         *)
(***************************************************************************)
Watchers == DOMAIN chan

\* loop top: the shutdown check (idle.rs:143-146)
idle_check_shutdown(w) ==
    /\ chan[w].pc = "top"
    /\ chan' = [chan EXCEPT ![w].pc = IF chan[w].shutdown THEN "stopped" ELSE "creds"]
    /\ UNCHANGED <<shutdown_senders, call, events>>
    /\ UNCHANGED <<storeVars, credVars, sessionVars, codec, wait_result>>

\* ImapCredentials::Password { user, password }
Password(user, password) == [kind |-> "Password", user |-> user, password |-> password]

\* the credentials an idle_loop builds from what the store holds (idle.rs:150-172)
idle_credentials(account_id) ==
    IF auth_type(account_id) = "oauth2"
    THEN IF get_account_tokens(account_id) = None
         THEN None
         ELSE Some(OAuth2(email_of(account_id),
                          get_account_tokens(account_id)[1].access_token))
    ELSE IF get_app_password(account_id) = None
         THEN None
         ELSE Some(Password(email_of(account_id), get_app_password(account_id)[1]))

\* build credentials and the client (idle.rs:149-187); the client lives to
\* the end of the loop body
idle_build_credentials(w) ==
    /\ chan[w].pc = "creds"
    /\ LET got == idle_credentials(chan[w].account_id)
       IN  chan' = [chan EXCEPT ![w].pc = IF got = None THEN "sleep" ELSE "connect",
                                ![w].creds = got]
    /\ UNCHANGED <<shutdown_senders, call, events>>
    /\ UNCHANGED <<storeVars, credVars, sessionVars, codec>>

\* a failed connect ends the loop
idle_connect_gives_up(w) ==
    /\ chan[w].pc = "connect"
    /\ \E ok \in BOOLEAN :
           chan' = [chan EXCEPT ![w].pc = IF ok THEN "wait" ELSE "stopped",
                                ![w].creds = IF ok THEN chan[w].creds ELSE None]
    /\ UNCHANGED <<shutdown_senders, call, events>>
    /\ UNCHANGED <<storeVars, credVars, sessionVars, codec, wait_result>>

\* client.reconnect().await returns (idle.rs:190-202)
idle_connect(w) ==
    /\ chan[w].pc = "connect"
    /\ \E ok \in BOOLEAN :
           chan' = [chan EXCEPT ![w].pc = IF ok THEN "wait" ELSE "sleep",
                                ![w].creds = IF ok THEN chan[w].creds ELSE None]
    /\ UNCHANGED <<shutdown_senders, call, events>>
    /\ UNCHANGED <<storeVars, credVars, sessionVars, codec, wait_result>>

\* after an error the same client reconnects at once
idle_wait_returns_reuse(w, r) ==
    /\ chan[w].pc = "wait"
    /\ r = "new_mail" => Len(events) < MaxEvents
    /\ chan' = [chan EXCEPT ![w].pc = IF r = "error" THEN "connect" ELSE "top",
                            ![w].creds = IF r = "error" THEN chan[w].creds ELSE None]
    /\ events' = IF r = "new_mail"
                 THEN Append(events, NewMailEvent(chan[w].account_id, chan[w].folder))
                 ELSE events
    /\ UNCHANGED <<shutdown_senders, call>>
    /\ UNCHANGED <<storeVars, credVars, sessionVars, codec>>

\* the event emitted on a timeout as well
idle_wait_returns_chatty(w, r) ==
    /\ chan[w].pc = "wait"
    /\ r # "error" => Len(events) < MaxEvents
    /\ chan' = [chan EXCEPT ![w].pc = IF r = "error" THEN "sleep" ELSE "top",
                            ![w].creds = None]
    /\ events' = IF r # "error"
                 THEN Append(events, NewMailEvent(chan[w].account_id, chan[w].folder))
                 ELSE events
    /\ UNCHANGED <<shutdown_senders, call>>
    /\ UNCHANGED <<storeVars, credVars, sessionVars, codec>>

\* client.idle_wait(..).await returns r and the match arm runs (idle.rs:205-228)
idle_wait_returns(w, r) ==
    /\ chan[w].pc = "wait"
    /\ r = "new_mail" => Len(events) < MaxEvents
    /\ chan' = [chan EXCEPT ![w].pc = IF r = "error" THEN "sleep" ELSE "top",
                            ![w].creds = None]
    /\ events' = IF r = "new_mail"
                 THEN Append(events, NewMailEvent(chan[w].account_id, chan[w].folder))
                 ELSE events
    /\ UNCHANGED <<shutdown_senders, call>>
    /\ UNCHANGED <<storeVars, credVars, sessionVars, codec>>

\* the three returns of idle_wait: Ok(true), Ok(false), Err(_)
WaitResults == {"new_mail", "timeout", "error"}

\* idle_wait returns, with no history kept
idle_wait(w) ==
    /\ \E r \in WaitResults : idle_wait_returns(w, r)
    /\ UNCHANGED wait_result

\* sleep(retry_delay).await returns; continue (idle.rs:160, 175, 199, 226)
idle_sleep(w) ==
    /\ chan[w].pc = "sleep"
    /\ chan' = [chan EXCEPT ![w].pc = "top"]
    /\ UNCHANGED <<shutdown_senders, call, events>>
    /\ UNCHANGED <<storeVars, credVars, sessionVars, codec, wait_result>>

(***************************************************************************)
(* resolve_oauth2_credentials (commands/email.rs:37-77)                    *)
(***************************************************************************)
\* chrono::Duration::seconds(60) (commands/email.rs:47)
BufferSecs == 60

\* get_tokens(): the legacy single-account slot
get_tokens == legacy_tokens

\* get_account_tokens(account_id).or_else(|_| get_tokens()) (commands/email.rs:42-43)
stored_tokens(account_id) ==
    IF get_account_tokens(account_id) # None
    THEN get_account_tokens(account_id)
    ELSE get_tokens

\* the expiry test with < for <=
is_expired_strict(tokens, t) == tokens.expires_at < t + BufferSecs

\* tokens.expires_at <= Utc::now() + buffer (commands/email.rs:48)
is_expired(tokens, t) == tokens.expires_at <= t + BufferSecs

\* the refresh attempted whether or not a refresh token is stored
can_refresh_always(tokens) == TRUE

\* if let Some(refresh_token) = &tokens.refresh_token (commands/email.rs:50)
can_refresh(tokens) == tokens.refresh_token # None

\* the refresh error reported as the missing-token error
RefreshFailedAsNotAuthenticated == Err("Not authenticated")

\* the three early errors of the function (commands/email.rs:44, 57, 69)
NotAuthenticated == Err("Not authenticated")
RefreshFailed == Err("Token refresh failed")
ReauthRequired ==
    Err("Token expired and no refresh token available. Please re-authenticate.")

\* the credentials built from the token set read before the refresh
refreshed_credentials_stale(account_id, tokens, new_tokens) ==
    OAuth2(email_of(account_id), tokens.access_token)

\* the credentials returned after a refresh (commands/email.rs:64-67)
refreshed_credentials(account_id, tokens, new_tokens) ==
    OAuth2(email_of(account_id), new_tokens.access_token)

\* the credentials returned for a token that is not expired (commands/email.rs:73-76)
stored_credentials(account_id, tokens) ==
    OAuth2(email_of(account_id), tokens.access_token)

\* refresh_access_token_for_provider(refresh_token, provider, account_id):
\* the token set a successful exchange returns
refresh_access_token_for_provider(refresh_token, n, t) ==
    [access_token |-> 100 + n, refresh_token |-> Some(refresh_token),
     expires_at |-> t + 3600]

IdleResolver ==
    [pc |-> "idle", account_id |-> "", tokens |-> None, checked_at |-> 0,
     refresh_calls |-> 0, refreshed |-> "no", new_tokens |-> None,
     wrote_account |-> "no", wrote_legacy |-> "no", result |-> None]

\* entry to the first suspension point or return (commands/email.rs:42-50, 68-76)
resolve_oauth2_credentials(r, a) ==
    /\ resolver[r].pc \in {"idle", "done"}
    /\ LET read == stored_tokens(a)
           call0 == [IdleResolver EXCEPT !.account_id = a, !.tokens = read,
                                         !.checked_at = now]
       IN  resolver' = [resolver EXCEPT ![r] =
               IF read = None
               THEN [call0 EXCEPT !.pc = "done", !.result = Some(NotAuthenticated)]
               ELSE IF ~is_expired(read[1], now)
               THEN [call0 EXCEPT !.pc = "done",
                                  !.result = Some(Ok(stored_credentials(a, read[1])))]
               ELSE IF can_refresh(read[1])
               THEN [call0 EXCEPT !.pc = "refresh", !.refresh_calls = 1]
               ELSE [call0 EXCEPT !.pc = "done", !.result = Some(ReauthRequired)]]
    /\ UNCHANGED <<idleVars, storeVars, now, issued, clients, handles, codec, wait_result>>

\* refresh_access_token_for_provider(..).await returns (commands/email.rs:51-57);
\* the provider issues at most cap token sets in one behaviour
refresh_returns_capped(r, cap) ==
    /\ resolver[r].pc = "refresh"
    /\ \/ /\ resolver' = [resolver EXCEPT ![r].pc = "done",
                                          ![r].refreshed = "err",
                                          ![r].result = Some(RefreshFailed)]
          /\ UNCHANGED issued
       \/ /\ issued < cap
          /\ issued' = issued + 1
          /\ resolver' = [resolver EXCEPT
                 ![r].pc = "store_account",
                 ![r].refreshed = "ok",
                 ![r].new_tokens =
                     Some(refresh_access_token_for_provider(
                              resolver[r].tokens[1].refresh_token[1], issued + 1, now))]
    /\ UNCHANGED <<idleVars, storeVars, now, sessionVars, codec, wait_result>>

refresh_returns(r) == refresh_returns_capped(r, MaxRefreshes)

\* the account slot written with the token set read before the refresh
store_account_tokens_stale(r) ==
    /\ resolver[r].pc = "store_account"
    /\ account_tokens' = [account_tokens EXCEPT ![resolver[r].account_id] =
                                                    resolver[r].tokens]
    /\ resolver' = [resolver EXCEPT ![r].pc = "store_legacy",
                                    ![r].wrote_account = "stored"]
    /\ UNCHANGED <<idleVars, legacy_tokens, app_passwords, now, issued>>
    /\ UNCHANGED <<sessionVars, codec, wait_result>>

\* let _ = store_account_tokens(account_id, &new_tokens) (commands/email.rs:60)
store_account_tokens(r) ==
    /\ resolver[r].pc = "store_account"
    /\ \E stored \in BOOLEAN :
           /\ account_tokens' =
                  IF stored
                  THEN [account_tokens EXCEPT ![resolver[r].account_id] =
                                                  resolver[r].new_tokens]
                  ELSE account_tokens
           /\ resolver' = [resolver EXCEPT
                  ![r].pc = "store_legacy",
                  ![r].wrote_account = IF stored THEN "stored" ELSE "failed"]
    /\ UNCHANGED <<idleVars, legacy_tokens, app_passwords, now, issued>>
    /\ UNCHANGED <<sessionVars, codec, wait_result>>

\* let _ = store_tokens(&new_tokens); return Ok(..) (commands/email.rs:61-67)
store_tokens(r) ==
    /\ resolver[r].pc = "store_legacy"
    /\ \E stored \in BOOLEAN :
           /\ legacy_tokens' = IF stored THEN resolver[r].new_tokens ELSE legacy_tokens
           /\ resolver' = [resolver EXCEPT
                  ![r].pc = "done",
                  ![r].wrote_legacy = IF stored THEN "stored" ELSE "failed",
                  ![r].result = Some(Ok(refreshed_credentials(
                                            resolver[r].account_id,
                                            resolver[r].tokens[1],
                                            resolver[r].new_tokens[1])))]
    /\ UNCHANGED <<idleVars, account_tokens, app_passwords, now, issued>>
    /\ UNCHANGED <<sessionVars, codec, wait_result>>

\* a second passes
Tick ==
    /\ now < MaxNow
    /\ now' = now + 1
    /\ UNCHANGED <<idleVars, storeVars, issued, resolver>>
    /\ UNCHANGED <<sessionVars, codec, wait_result>>

(***************************************************************************)
(* get_active_client and the session cache (commands/email.rs:81-156)      *)
(***************************************************************************)
\* ImapClient objects built in one behaviour
MaxHandles == 2

\* the tasks that call get_active_client; task t resolves as resolver t
Tasks == Resolvers

\* AccountManager::get_client(account_id): the cached Arc, if any
get_client(account_id) == clients[account_id]

\* AccountManager::remove_client(account_id)
remove_client(cache, account_id) == [cache EXCEPT ![account_id] = None]

\* AccountManager::add_client(account_id, client): insert, replacing
add_client(cache, account_id, handle) == [cache EXCEPT ![account_id] = Some(handle)]

\* the eviction decided whatever the expiry test says
needs_eviction_never(account_id, t) == FALSE
needs_eviction_always(account_id, t) == TRUE

\* is_expired of get_active_client: a missing token set counts as expired
\* (commands/email.rs:96-104)
needs_eviction(account_id, t) ==
    /\ auth_type(account_id) = "oauth2"
    /\ \/ stored_tokens(account_id) = None
       \/ is_expired(stored_tokens(account_id)[1], t)

NoActiveAccount == Err("No active account. Please add an account first.")
NoPassword == Err("No password for account")
NoClientStored == Err("Failed to store client")

\* a task outside get_active_client.  cached, evicted and resolutions are
\* history: the handle cached when the call began, the handle its
\* remove_client dropped, and its calls of resolve_oauth2_credentials.
\* guard: the task holds the lock of the handle cache.
IdleTask ==
    [pc |-> "idle", account_id |-> "", is_expired |-> FALSE, credentials |-> None,
     created |-> None, result |-> None, cached |-> None, evicted |-> None,
     resolutions |-> 0, guard |-> FALSE]

\* tasks inside get_active_client
InFlight == {t \in Tasks : task[t].pc \notin {"idle", "done", "locked", "io"}}

\* entry: the active account and the expiry test (commands/email.rs:86-105)
get_active_client(t, active) ==
    /\ task[t].pc \in {"idle", "done"}
    /\ resolver[t].pc \in {"idle", "done"}
    /\ Len(handles) + Cardinality(InFlight) < MaxHandles
    /\ task' = [task EXCEPT ![t] =
               IF active = None
               THEN [IdleTask EXCEPT !.pc = "done", !.result = Some(NoActiveAccount)]
               ELSE [IdleTask EXCEPT
                        !.pc = IF needs_eviction(active[1], now) THEN "evict" ELSE "lookup",
                        !.account_id = active[1],
                        !.is_expired = needs_eviction(active[1], now),
                        !.cached = get_client(active[1])]]
    /\ UNCHANGED <<idleVars, storeVars, credVars, clients, handles, codec, wait_result>>

\* the lock of the handle cache can be taken by task t: no other task
\* holds it
CacheAvailable(t) == \A u \in Tasks \ {t} : ~task[u].guard

\* the positions from which get_active_client calls a method of the cache
CachePcs == {"evict", "lookup", "create", "final"}

\* the cache method called by task t has taken the lock of the cache and
\* has not touched the map yet
lock_cache(t) ==
    /\ task[t].pc \in CachePcs
    /\ ~task[t].guard
    /\ CacheAvailable(t)
    /\ task' = [task EXCEPT ![t].guard = TRUE]
    /\ UNCHANGED <<idleVars, storeVars, credVars, clients, handles, codec, wait_result>>

\* account_manager.remove_client(&account.id) (commands/email.rs:106-109)
gac_remove_client(t) ==
    /\ task[t].pc = "evict"
    /\ CacheAvailable(t)
    /\ clients' = remove_client(clients, task[t].account_id)
    /\ task' = [task EXCEPT ![t].pc = "lookup",
                            ![t].evicted = get_client(task[t].account_id),
                            ![t].guard = FALSE]
    /\ UNCHANGED <<idleVars, storeVars, credVars, handles, codec, wait_result>>

\* the lock of the cache kept after the lookup
gac_get_client_keeps_guard(t) ==
    /\ task[t].pc = "lookup"
    /\ CacheAvailable(t)
    /\ task' = [task EXCEPT ![t] =
           IF get_client(task[t].account_id) # None
           THEN [task[t] EXCEPT !.pc = "done", !.guard = TRUE,
                                !.result = Some(Ok(get_client(task[t].account_id)[1]))]
           ELSE [task[t] EXCEPT !.pc = "creds", !.guard = TRUE]]
    /\ UNCHANGED <<idleVars, storeVars, credVars, clients, handles, codec, wait_result>>

\* the cache lookup (commands/email.rs:112-115)
gac_get_client(t) ==
    /\ task[t].pc = "lookup"
    /\ CacheAvailable(t)
    /\ task' = [task EXCEPT ![t] =
           IF get_client(task[t].account_id) # None
           THEN [task[t] EXCEPT !.pc = "done", !.guard = FALSE,
                                !.result = Some(Ok(get_client(task[t].account_id)[1]))]
           ELSE [task[t] EXCEPT !.pc = "creds", !.guard = FALSE]]
    /\ UNCHANGED <<idleVars, storeVars, credVars, clients, handles, codec, wait_result>>

\* the credentials of a new client (commands/email.rs:124-133): the OAuth2
\* branch enters resolve_oauth2_credentials, the other reads the app password
gac_credentials(t) ==
    /\ task[t].pc = "creds"
    /\ \/ /\ auth_type(task[t].account_id) = "oauth2"
          /\ resolve_oauth2_credentials(t, task[t].account_id)
          /\ task' = [task EXCEPT ![t].pc = "resolving", ![t].resolutions = 1]
       \/ /\ auth_type(task[t].account_id) # "oauth2"
          /\ task' = [task EXCEPT ![t] =
                 IF get_app_password(task[t].account_id) = None
                 THEN [task[t] EXCEPT !.pc = "done", !.result = Some(NoPassword)]
                 ELSE [task[t] EXCEPT
                          !.pc = "create",
                          !.credentials =
                              Some(Password(email_of(task[t].account_id),
                                            get_app_password(task[t].account_id)[1]))]]
          /\ UNCHANGED <<idleVars, storeVars, credVars, clients, handles, codec,
                         wait_result>>

\* the error path puts the evicted handle back
gac_resolved_restoring(t) ==
    /\ task[t].pc = "resolving"
    /\ resolver[t].pc = "done"
    /\ task' = [task EXCEPT ![t] =
           IF resolver[t].result[1].ok
           THEN [task[t] EXCEPT !.pc = "create",
                                !.credentials = Some(resolver[t].result[1].val)]
           ELSE [task[t] EXCEPT !.pc = "done", !.result = resolver[t].result]]
    /\ clients' = IF resolver[t].result[1].ok \/ task[t].evicted = None
                  THEN clients
                  ELSE add_client(clients, task[t].account_id, task[t].evicted[1])
    /\ UNCHANGED <<idleVars, storeVars, credVars, handles, codec, wait_result>>

\* resolve_oauth2_credentials(..).await? has returned (commands/email.rs:125)
gac_resolved(t) ==
    /\ task[t].pc = "resolving"
    /\ resolver[t].pc = "done"
    /\ task' = [task EXCEPT ![t] =
           IF resolver[t].result[1].ok
           THEN [task[t] EXCEPT !.pc = "create",
                                !.credentials = Some(resolver[t].result[1].val)]
           ELSE [task[t] EXCEPT !.pc = "done", !.result = resolver[t].result]]
    /\ UNCHANGED <<idleVars, storeVars, credVars, clients, handles, codec, wait_result>>

\* ImapClient::new(..) and account_manager.add_client(..) (commands/email.rs:143-151);
\* the new client is not connected and the tokio::sync::Mutex around it is free
gac_add_client(t) ==
    /\ task[t].pc = "create"
    /\ CacheAvailable(t)
    /\ LET handle == Len(handles) + 1
       IN  /\ handles' = Append(handles, [account_id |-> task[t].account_id,
                                          credentials |-> task[t].credentials[1],
                                          connected |-> FALSE,
                                          mutex |-> 0])
           /\ clients' = add_client(clients, task[t].account_id, handle)
           /\ task' = [task EXCEPT ![t].pc = "final", ![t].created = Some(handle),
                                   ![t].guard = FALSE]
    /\ UNCHANGED <<idleVars, storeVars, credVars, codec, wait_result>>

\* the call returns the handle it created, without the lookup
gac_final_lookup_own(t) ==
    /\ task[t].pc = "final"
    /\ task' = [task EXCEPT ![t].pc = "done", ![t].guard = FALSE,
                            ![t].result = Some(Ok(task[t].created[1]))]
    /\ UNCHANGED <<idleVars, storeVars, credVars, clients, handles, codec, wait_result>>

\* the lookup after the insertion (commands/email.rs:153-155)
gac_final_lookup(t) ==
    /\ task[t].pc = "final"
    /\ CacheAvailable(t)
    /\ task' = [task EXCEPT ![t].pc = "done", ![t].guard = FALSE, ![t].result =
           IF get_client(task[t].account_id) # None
           THEN Some(Ok(get_client(task[t].account_id)[1]))
           ELSE Some(NoClientStored)]
    /\ UNCHANGED <<idleVars, storeVars, credVars, clients, handles, codec, wait_result>>

(***************************************************************************)
(* The foreground commands and the mutex of a handle                       *)
(* (commands/email.rs:171-357, 418-453)                                    *)
(***************************************************************************)
NoClientForAccount == Err("No client for account")

\* the Arc<Mutex<ImapClient>> that the command of task t holds
client_arc(t) == task[t].result[1].val

\* the command of task t holds a handle and has not locked it yet
HoldsHandle(t) ==
    /\ task[t].pc = "done"
    /\ task[t].result # None
    /\ task[t].result[1].ok

\* account_manager.get_client(&account_id).ok_or_else(..)? of get_email,
\* mark_email_read, star_email, trash_email and archive_email
\* (commands/email.rs:233, 291-293, 310-312, 329-331, 348-350)
lookup_client(t, account_id) ==
    /\ task[t].pc \in {"idle", "done"}
    /\ CacheAvailable(t)
    /\ task' = [task EXCEPT ![t] =
           [IdleTask EXCEPT
               !.pc = "done",
               !.account_id = account_id,
               !.result = IF get_client(account_id) = None
                          THEN Some(NoClientForAccount)
                          ELSE Some(Ok(get_client(account_id)[1]))]]
    /\ UNCHANGED <<idleVars, storeVars, credVars, clients, handles, codec, wait_result>>

\* the lock taken although another task holds it
lock_client_no_wait(t) ==
    /\ HoldsHandle(t)
    /\ handles' = [handles EXCEPT ![client_arc(t)].mutex = t]
    /\ task' = [task EXCEPT ![t].pc = "locked"]
    /\ UNCHANGED <<idleVars, storeVars, credVars, clients, codec, wait_result>>

\* let client = client_arc.lock().await: returns when the mutex is free
\* (commands/email.rs:201, 234, 268, 294, 313, 332, 351, 425)
lock_client(t) ==
    /\ HoldsHandle(t)
    /\ handles[client_arc(t)].mutex = 0
    /\ handles' = [handles EXCEPT ![client_arc(t)].mutex = t]
    /\ task' = [task EXCEPT ![t].pc = "locked"]
    /\ UNCHANGED <<idleVars, storeVars, credVars, clients, codec, wait_result>>

\* client.list_messages / get_message / send_email / set_flags /
\* move_message / get_folder_stats is called through the guard
\* (commands/email.rs:202-204, 210, 235-238, 269-280, 295-298, 428)
protocol_call(t) ==
    /\ task[t].pc = "locked"
    /\ task' = [task EXCEPT ![t].pc = "io"]
    /\ UNCHANGED <<idleVars, storeVars, credVars, clients, handles, codec, wait_result>>

\* the protocol operation returns; the guard is still held and the command
\* may call again (the loops at commands/email.rs:208-220 and 427-447)
protocol_returns(t) ==
    /\ task[t].pc = "io"
    /\ task' = [task EXCEPT ![t].pc = "locked"]
    /\ UNCHANGED <<idleVars, storeVars, credVars, clients, handles, codec, wait_result>>

\* the command returns and the guard is dropped
command_returns(t) ==
    /\ task[t].pc = "locked"
    /\ handles' = [handles EXCEPT ![client_arc(t)].mutex = 0]
    /\ task' = [task EXCEPT ![t] = IdleTask]
    /\ UNCHANGED <<idleVars, storeVars, credVars, clients, codec, wait_result>>

(***************************************************************************)
(* The email id "{account_id}:{folder}:{uid}" (commands/email.rs:25-34)    *)
(***************************************************************************)
\* longest email id text drawn from CodecChars
MaxIdLen == 5

\* a u32 is kept as two 16-bit limbs [hi, lo], value hi * 2^16 + lo
Limb == 65536
U32(hi, lo) == [hi |-> hi, lo |-> lo]

\* the i-th character of s, as a string
char_at(s, i) == SubSeq(s, i, i)

\* str::find from position from: index of the first c, or 0
find(s, c, from) ==
    LET at == {i \in from..Len(s) : char_at(s, i) = c}
    IN  IF at = {} THEN 0 ELSE CHOOSE i \in at : \A j \in at : i <= j

\* every ':' splits: split(':') cut down to its first three pieces
splitn_truncating(s) ==
    LET c1 == find(s, ":", 1)
        c2 == IF c1 = 0 THEN 0 ELSE find(s, ":", c1 + 1)
        c3 == IF c2 = 0 THEN 0 ELSE find(s, ":", c2 + 1)
    IN  IF c1 = 0 THEN <<s>>
        ELSE IF c2 = 0 THEN <<SubSeq(s, 1, c1 - 1), SubSeq(s, c1 + 1, Len(s))>>
        ELSE <<SubSeq(s, 1, c1 - 1), SubSeq(s, c1 + 1, c2 - 1),
               SubSeq(s, c2 + 1, IF c3 = 0 THEN Len(s) ELSE c3 - 1)>>

\* email_id.splitn(3, ':').collect(): at most three parts, the last one the
\* rest of the string (commands/email.rs:27)
splitn(s) ==
    LET c1 == find(s, ":", 1)
        c2 == IF c1 = 0 THEN 0 ELSE find(s, ":", c1 + 1)
    IN  IF c1 = 0 THEN <<s>>
        ELSE IF c2 = 0 THEN <<SubSeq(s, 1, c1 - 1), SubSeq(s, c1 + 1, Len(s))>>
        ELSE <<SubSeq(s, 1, c1 - 1), SubSeq(s, c1 + 1, c2 - 1),
               SubSeq(s, c2 + 1, Len(s))>>

Digits == <<"0", "1", "2", "3", "4", "5", "6", "7", "8", "9">>
is_digit(ch) == \E d \in 1..10 : Digits[d] = ch
digit_value(ch) == (CHOOSE d \in 1..10 : Digits[d] = ch) - 1

\* the same on a u16
checked_push_u16(acc, d) ==
    LET lo == acc.lo * 10 + d
    IN  IF lo >= Limb THEN None ELSE Some(U32(0, lo))

\* acc.checked_mul(10)?.checked_add(d)? on a u32
checked_push(acc, d) ==
    LET lo == acc.lo * 10 + d
        hi == acc.hi * 10 + lo \div Limb
    IN  IF hi >= Limb THEN None ELSE Some(U32(hi, lo % Limb))

\* the digit loop of u32::from_str over s[i..], from the value acc
RECURSIVE from_digits(_, _, _)
from_digits(s, i, acc) ==
    IF i > Len(s) THEN Some(acc)
    ELSE IF ~is_digit(char_at(s, i)) THEN None
    ELSE LET next == checked_push(acc, digit_value(char_at(s, i)))
         IN  IF next = None THEN None ELSE from_digits(s, i + 1, next[1])

\* parts[2].parse::<u32>().ok() (commands/email.rs:29): an optional '+',
\* then one or more decimal digits, the value within u32
parse_u32(s) ==
    IF s = "" THEN None
    ELSE IF char_at(s, 1) = "+"
    THEN IF Len(s) = 1 THEN None ELSE from_digits(s, 2, U32(0, 0))
    ELSE from_digits(s, 1, U32(0, 0))

\* parse_email_id (commands/email.rs:26-34)
parse_email_id(email_id) ==
    LET parts == splitn(email_id)
    IN  IF Len(parts) = 3
        THEN IF parse_u32(parts[3]) = None
             THEN None
             ELSE Some(<<parts[1], parts[2], parse_u32(parts[3])[1]>>)
        ELSE None

\* u32's Display: the decimal digits, no sign, no leading zero
RECURSIVE to_string(_)
to_string(u) ==
    LET mid == (u.hi % 10) * Limb + u.lo
        q == U32(u.hi \div 10, mid \div 10)
        d == Digits[(mid % 10) + 1]
    IN  IF q = U32(0, 0) THEN d ELSE to_string(q) \o d

\* format!("{}:{}:{}", account_id, folder, uid)
encode_email_id(account_id, folder, uid) ==
    account_id \o ":" \o folder \o ":" \o to_string(uid)

\* the characters of the texts handed to parse_email_id
CodecChars == {"a", ":", "1", "0", "+"}

RECURSIVE Texts(_)
Texts(n) ==
    IF n = 0 THEN {""}
    ELSE LET shorter == Texts(n - 1)
         IN  shorter \cup {t \o ch : t \in shorter, ch \in CodecChars}

\* texts around u32::MAX = 4294967295, and with further ':' in the remainder
LongTexts ==
    {"a:INBOX:4294967295", "a:INBOX:4294967296", "a:INBOX:42949672950",
     "a:INBOX:+4294967295", "a:INBOX:00000000001", "a:INBOX:12:34",
     "a:INBOX:65536", "a:INBOX:-1", "a:INBOX: 1", "a:INBOX:1 ", "a:INBOX"}

\* account ids, folders and uids that are encoded
CodecAccounts == {"", "a", "ab", "+1"}
CodecFolders == {"", "INBOX", "[Gmail]/Sent Mail", "1"}
CodecUids ==
    {U32(hi, lo) : hi \in {0, 1, 9, Limb - 1}, lo \in {0, 1, 9, 10, Limb - 1}}

IdleCodec == [stage |-> "idle", triple |-> None, text |-> "", parsed |-> None]

\* the id of a message is built from its account, folder and uid
codec_encode ==
    /\ codec.stage = "triple"
    /\ codec' = [codec EXCEPT !.stage = "encoded",
                              !.text = encode_email_id(codec.triple[1][1],
                                                       codec.triple[1][2],
                                                       codec.triple[1][3])]
    /\ UNCHANGED <<idleVars, storeVars, credVars, sessionVars, wait_result>>

\* a command handler parses the id it was given (commands/email.rs:209, 231)
codec_parse ==
    /\ codec.stage \in {"encoded", "text"}
    /\ codec' = [codec EXCEPT
                    !.stage = IF codec.stage = "encoded" THEN "decoded" ELSE "parsed",
                    !.parsed = parse_email_id(codec.text)]
    /\ UNCHANGED <<idleVars, storeVars, credVars, sessionVars, wait_result>>

(***************************************************************************)
(* Specifications                                                          *)
(***************************************************************************)
\* the token set of the OAuth2 account in the supervisor specifications
TokenA == [access_token |-> 1, refresh_token |-> Some("r0"), expires_at |-> BufferSecs + 1]

InitStore ==
    /\ account_tokens = [a \in AccountIds |-> IF a = "a" THEN Some(TokenA) ELSE None]
    /\ legacy_tokens = None
    /\ app_passwords = [a \in AccountIds |-> None]

InitCred ==
    /\ now = 0
    /\ issued = 0
    /\ resolver = [r \in Resolvers |-> IdleResolver]

InitIdle ==
    /\ shutdown_senders = EmptyRegistry
    /\ chan = << >>
    /\ events = << >>
    /\ call = [c \in Callers |-> IdleCall]

InitSession ==
    /\ clients = [a \in AccountIds |-> None]
    /\ handles = << >>
    /\ task = [t \in Tasks |-> IdleTask]

InitCodec == codec = IdleCodec

InitHistory == wait_result = [w \in 1..MaxChannels |-> "none"]

Init ==
    /\ shutdown_senders = EmptyRegistry
    /\ chan = << >>
    /\ events = << >>
    /\ call = [c \in Callers |-> IdleCall]
    /\ InitStore
    /\ InitCred
    /\ InitSession
    /\ InitCodec
    /\ InitHistory

\* what one command handler may do next, on the accounts of ids
CallerStep(c, ids) ==
    \/ \E a \in ids : CallStartIdle(c, a)
    \/ \E a \in ids : CallStopIdle(c, a)
    \/ CallStopAll(c)
    \/ start_idle(c)
    \/ start_folder_idle(c)
    \/ spawn_idle_loop(c)
    \/ stop_idle(c)
    \/ stop_all(c)

WatcherStep(w) ==
    \/ idle_check_shutdown(w)
    \/ idle_build_credentials(w) /\ UNCHANGED wait_result
    \/ idle_connect(w)
    \/ idle_wait(w)
    \/ idle_sleep(w)

\* the commands act on the active account (commands/email.rs:366-373, 402-409)
ActiveAccount == "a"

Next ==
    \/ \E c \in Callers : CallerStep(c, {ActiveAccount})
    \/ \E w \in Watchers : WatcherStep(w)

\* concurrent command handlers on the active account
Spec == Init /\ [][Next]_vars

NextSeq ==
    \/ CallerStep(1, AccountIds)
    \/ \E w \in Watchers : WatcherStep(w)

\* one command handler at a time, the active account switching freely
SpecSeq == Init /\ [][NextSeq]_vars

NextRestart ==
    \/ \E c \in Callers : \/ CallStartIdle(c, ActiveAccount)
                          \/ start_idle(c)
                          \/ start_folder_idle(c)
                          \/ spawn_idle_loop(c)
    \/ \E w \in Watchers : WatcherStep(w)

\* Command handlers that only (re)start monitoring, with the scheduling the
\* runtime gives: a handler inside start_idle runs on, and every connect,
\* wait and sleep of a spawned idle_loop returns.
SpecRestartFair ==
    /\ Init
    /\ [][NextRestart]_vars
    /\ \A c \in Callers :
           WF_vars(start_idle(c) \/ start_folder_idle(c) \/ spawn_idle_loop(c))
    /\ \A w \in 1..MaxChannels : WF_vars(w \in Watchers /\ WatcherStep(w))

\* token sets the store may hold when the process starts
StoredTokenSets(access_token) ==
    {[access_token |-> access_token, refresh_token |-> rt, expires_at |-> e] :
        rt \in {None, Some("r0")}, e \in {BufferSecs, BufferSecs + 1}}

OAuthAccounts == {a \in AccountIds : auth_type(a) = "oauth2"}

InitResolve ==
    /\ InitIdle
    /\ InitCred
    /\ \E t \in {None} \cup {Some(x) : x \in StoredTokenSets(1)} :
           account_tokens = [a \in AccountIds |-> IF a \in OAuthAccounts THEN t ELSE None]
    /\ legacy_tokens \in {None} \cup {Some(x) : x \in StoredTokenSets(2)}
    /\ app_passwords = [a \in AccountIds |-> None]
    /\ InitSession
    /\ InitCodec
    /\ InitHistory

NextResolve ==
    \/ \E r \in Resolvers : \/ \E a \in OAuthAccounts :
                                   (resolve_oauth2_credentials(r, a) /\ UNCHANGED task)
                             \/ refresh_returns(r)
                             \/ store_account_tokens(r)
                             \/ store_tokens(r)
    \/ Tick

\* concurrent credential resolutions against any stored token sets
SpecResolve == InitResolve /\ [][NextResolve]_vars

\* the account slot holds a token set that is expired and can be refreshed
InitResolveRace ==
    /\ InitIdle
    /\ InitCred
    /\ account_tokens =
           [a \in AccountIds |->
               IF a \in OAuthAccounts
               THEN Some([access_token |-> 1, refresh_token |-> Some("r0"),
                          expires_at |-> BufferSecs])
               ELSE None]
    /\ legacy_tokens \in {None} \cup {Some(x) : x \in StoredTokenSets(2)}
    /\ app_passwords = [a \in AccountIds |-> None]
    /\ InitSession
    /\ InitCodec
    /\ InitHistory

NextResolveRace ==
    \E r \in Resolvers :
        \/ (resolve_oauth2_credentials(r, ActiveAccount) /\ UNCHANGED task)
        \/ refresh_returns_capped(r, NumResolvers)
        \/ store_account_tokens(r)
        \/ store_tokens(r)

\* concurrent credential resolutions for one account whose token is
\* expired; the refresh call of each of them can succeed
SpecResolveRace == InitResolveRace /\ [][NextResolveRace]_vars

\* idle_wait returns and the history records what it returned
idle_wait_observed(w) ==
    \E r \in WaitResults :
        /\ idle_wait_returns(w, r)
        /\ wait_result' = [wait_result EXCEPT ![w] = r]

\* the history of a loop ends where the loop goes on to build its next client
idle_build_observed(w) ==
    /\ idle_build_credentials(w)
    /\ wait_result' = [wait_result EXCEPT ![w] = "none"]

ObservedWatcherStep(w) ==
    \/ idle_check_shutdown(w)
    \/ idle_build_observed(w)
    \/ idle_connect(w)
    \/ idle_wait_observed(w)
    \/ idle_sleep(w)

\* what the store may hold while watchers run
InitWatch ==
    /\ InitIdle
    /\ InitCred
    /\ InitSession
    /\ InitCodec
    /\ InitHistory
    /\ \E t \in {None} \cup {Some(x) : x \in {y \in StoredTokenSets(1) :
                                                  y.refresh_token # None}} :
           /\ account_tokens =
                  [a \in AccountIds |-> IF a \in OAuthAccounts THEN t ELSE None]
           /\ app_passwords =
                  [a \in AccountIds |->
                      IF a \in OAuthAccounts \/ t = None THEN None ELSE Some("pw")]
    /\ legacy_tokens = None

\* one command handler starts monitoring once, for either account, and may
\* then stop it
WatchCallerStep ==
    \/ \E a \in AccountIds : Len(chan) = 0 /\ CallStartIdle(1, a)
    \/ \E w \in Watchers : CallStopIdle(1, chan[w].account_id)
    \/ start_idle(1)
    \/ start_folder_idle(1)
    \/ spawn_idle_loop(1)
    \/ stop_idle(1)

NextWatch ==
    \/ WatchCallerStep
    \/ \E w \in Watchers : ObservedWatcherStep(w)

\* the watchers of one start_idle call, every return of idle_wait recorded
SpecWatch == InitWatch /\ [][NextWatch]_vars

NextWatchFair ==
    \/ WatchCallerStep
    \/ \E w \in Watchers : WatcherStep(w)

\* The watchers of one start_idle call with the scheduling the runtime
\* gives a spawned idle_loop: its connect, wait and sleep all return.
SpecWatchFair ==
    /\ InitWatch
    /\ [][NextWatchFair]_vars
    /\ \A w \in 1..NumFolders : WF_vars(w \in Watchers /\ WatcherStep(w))

\* what the store may hold when get_active_client is first called
InitClient ==
    /\ InitIdle
    /\ InitCred
    /\ InitSession
    /\ InitCodec
    /\ InitHistory
    /\ \E t \in {None} \cup {Some(x) : x \in StoredTokenSets(1)} :
           account_tokens = [a \in AccountIds |-> IF a \in OAuthAccounts THEN t ELSE None]
    /\ legacy_tokens \in {None} \cup {Some(x) : x \in StoredTokenSets(2)}
    /\ \E p \in {None, Some("pw")} :
           app_passwords = [a \in AccountIds |-> IF a \in OAuthAccounts THEN None ELSE p]

\* the steps of one task through get_active_client, the active account
\* being one of actives
ClientStep(t, actives) ==
    \/ \E active \in actives : get_active_client(t, active)
    \/ gac_remove_client(t)
    \/ gac_get_client(t)
    \/ gac_credentials(t)
    \/ refresh_returns(t)
    \/ store_account_tokens(t)
    \/ store_tokens(t)
    \/ gac_resolved(t)
    \/ gac_add_client(t)
    \/ gac_final_lookup(t)

NextClientSeq ==
    \/ ClientStep(1, {None} \cup {Some(a) : a \in AccountIds})
    \/ Tick

\* one command handler at a time calls get_active_client
SpecClientSeq == InitClient /\ [][NextClientSeq]_vars

NextClient ==
    \/ \E t \in Tasks : ClientStep(t, {Some(ActiveAccount)})
    \/ Tick

\* command handlers on several worker threads call get_active_client for
\* the active account, an OAuth2 account
InitClientOAuth == InitClient /\ app_passwords = [a \in AccountIds |-> None]

SpecClient == InitClientOAuth /\ [][NextClient]_vars

\* the steps of get_active_client when no stored token set can be
\* refreshed: resolve_oauth2_credentials returns without suspending
RaceStep(t) ==
    \/ get_active_client(t, Some(ActiveAccount))
    \/ gac_remove_client(t)
    \/ gac_get_client(t)
    \/ gac_credentials(t)
    \/ gac_resolved(t)
    \/ gac_add_client(t)
    \/ gac_final_lookup(t)

NextClientRace ==
    \/ \E t \in Tasks : RaceStep(t)
    \/ Tick

InitClientRace ==
    /\ InitClientOAuth
    /\ \A a \in OAuthAccounts :
           account_tokens[a] # None => account_tokens[a][1].refresh_token = None
    /\ legacy_tokens # None => legacy_tokens[1].refresh_token = None

\* concurrent get_active_client calls for an account whose token sets carry
\* no refresh token
SpecClientRace == InitClientRace /\ [][NextClientRace]_vars

\* the steps of a foreground command of task t
ForegroundStep(t) ==
    \/ RaceStep(t)
    \/ lookup_client(t, ActiveAccount)
    \/ lock_client(t)
    \/ protocol_call(t)
    \/ protocol_returns(t)
    \/ command_returns(t)

NextForeground ==
    \/ \E t \in Tasks : ForegroundStep(t)
    \/ Tick

\* the account slot holds a token set that is not expired yet and carries
\* no refresh token; the legacy slot is empty
InitForeground ==
    /\ InitClientRace
    /\ account_tokens[ActiveAccount] # None
    /\ account_tokens[ActiveAccount][1].expires_at = BufferSecs + 1
    /\ legacy_tokens = None

\* foreground commands on several worker threads
SpecForeground == InitForeground /\ [][NextForeground]_vars

\* worker k runs one command at a time: an IdleManager command as call k
\* or a foreground command as task k
Workers == Callers \cap Tasks

\* no foreground command of worker k is in progress
NoCommand(k) == task[k].pc = "idle" \/ (task[k].pc = "done" /\ ~HoldsHandle(k))

WorkerStep(k) ==
    \/ (NoCommand(k) /\ Len(chan) = 0 /\ CallStartIdle(k, ActiveAccount))
    \/ (NoCommand(k) /\ CallStopIdle(k, ActiveAccount))
    \/ lock_registry(k)
    \/ start_idle(k)
    \/ start_folder_idle(k)
    \/ spawn_idle_loop(k)
    \/ stop_idle(k)
    \/ (CanCall(k) /\ NoCommand(k) /\ get_active_client(k, Some(ActiveAccount)))
    \/ lock_cache(k)
    \/ gac_get_client(k)
    \/ gac_credentials(k)
    \/ gac_resolved(k)
    \/ gac_add_client(k)
    \/ gac_final_lookup(k)
    \/ lock_client(k)
    \/ protocol_call(k)
    \/ protocol_returns(k)
    \/ command_returns(k)

NextLocks == \E k \in Workers : WorkerStep(k)

\* command handlers on several worker threads, with the states in which a
\* lock has been taken and the statements under it have not run yet; no
\* time passes, so the stored token stays fresh and nothing is evicted
SpecLocks == InitForeground /\ [][NextLocks]_vars

\* the email ids that are encoded and the texts that are parsed
InitCodecInputs ==
    /\ InitIdle
    /\ InitStore
    /\ InitCred
    /\ InitSession
    /\ InitHistory
    /\ \/ \E a \in CodecAccounts, f \in CodecFolders, u \in CodecUids :
              codec = [IdleCodec EXCEPT !.stage = "triple", !.triple = Some(<<a, f, u>>)]
       \/ \E t \in Texts(MaxIdLen) \cup LongTexts :
              codec = [IdleCodec EXCEPT !.stage = "text", !.text = t]

NextCodec == codec_encode \/ codec_parse

SpecCodec == InitCodecInputs /\ [][NextCodec]_vars

(***************************************************************************)
(* Properties of the watch supervisor                                      *)
(***************************************************************************)
\* the channel whose sender the registry holds under some key
RegisteredIn(senders, w) == \E k \in DOMAIN senders : senders[k] = w
Registered(w) == RegisteredIn(shutdown_senders, w)

\* an idle_loop task that exists and has not been sent the shutdown signal
Unsignalled(w) == chan[w].pc # "unspawned" /\ ~chan[w].shutdown

Stopped(w) == chan[w].pc = "stopped"

\* C1: under concurrent start_idle, stop_idle and stop_all calls there is at
\* most one unsignalled watcher task per (account_id, folder).
C1_AtMostOneUnsignalledWatcher ==
    \A w1, w2 \in Watchers :
        /\ Unsignalled(w1) /\ Unsignalled(w2)
        /\ chan[w1].account_id = chan[w2].account_id
        /\ chan[w1].folder = chan[w2].folder
        => w1 = w2

\* channels created so far by the start_idle call the (single) caller is in
OwnChannels ==
    LET n == IF call[1].pc = "insert" THEN call[1].i - 1
             ELSE IF call[1].pc = "spawn" THEN call[1].i
             ELSE 0
    IN  (Len(chan) - n + 1)..Len(chan)

\* C2: when start_idle(A) has completed and is called again, the second call
\* has signalled every watcher of A from before by the time it spawns its own,
\* and it ends with exactly one unsignalled watcher and one registration per
\* monitored folder of A, never two.
C2_RestartReplaces ==
    /\ \A w1, w2 \in Watchers :
           /\ Unsignalled(w1) /\ Unsignalled(w2)
           /\ chan[w1].account_id = chan[w2].account_id
           /\ chan[w1].folder = chan[w2].folder
           => w1 = w2
    /\ (call[1].op = "start_idle" /\ call[1].pc \in {"insert", "spawn"}) =>
           \A w \in Watchers \ OwnChannels :
               chan[w].account_id = call[1].account_id => chan[w].shutdown
    /\ (call[1].op = "start_idle" /\ call[1].pc = "done") =>
           LET A == call[1].account_id
               mine == {w \in Watchers : chan[w].account_id = A}
           IN  /\ \A f \in Folders :
                      /\ Cardinality({w \in mine : chan[w].folder = f
                                                   /\ Unsignalled(w)}) = 1
                      /\ Cardinality({w \in mine : chan[w].folder = f
                                                   /\ Registered(w)}) = 1
               /\ \A w \in mine : Unsignalled(w) <=> Registered(w)

C2_Witness ==
    /\ call[1].op = "start_idle" /\ call[1].pc = "done"
    /\ Cardinality({w \in Watchers : chan[w].account_id = call[1].account_id})
           = 2 * NumFolders
    /\ \E w \in Watchers : chan[w].account_id = call[1].account_id /\ chan[w].shutdown

\* C3: stop_idle(A) removes every registration under a key prefixed "A:" and
\* signals each of them, and leaves every registration of every other account
\* in the registry and unsignalled.
C3_StopIdleFrame ==
    [][\A c \in Callers :
          (call[c].pc = "stop_idle" /\ call'[c].pc = "done") =>
              LET A == call[c].account_id
              IN  /\ \A k \in DOMAIN shutdown_senders :
                         LET w == shutdown_senders[k]
                         IN  IF chan[w].account_id = A
                             THEN /\ SubSeq(k, 1, Len(A) + 1) = A \o ":"
                                  /\ k \notin DOMAIN shutdown_senders'
                                  /\ ~RegisteredIn(shutdown_senders', w)
                                  /\ chan'[w].shutdown
                             ELSE /\ k \in DOMAIN shutdown_senders'
                                  /\ shutdown_senders'[k] = w
                                  /\ chan'[w] = chan[w]
                  /\ DOMAIN shutdown_senders' \subseteq DOMAIN shutdown_senders
                  /\ \A w \in Watchers :
                         chan[w].account_id # A => chan'[w] = chan[w]]_vars

C3_Witness ==
    /\ call[1].op = "stop_idle" /\ call[1].pc = "done"
    /\ \E w \in Watchers : /\ chan[w].account_id = call[1].account_id
                           /\ chan[w].shutdown /\ ~Registered(w)
    /\ \E w \in Watchers : /\ chan[w].account_id # call[1].account_id
                           /\ ~chan[w].shutdown /\ Registered(w)
    /\ Cardinality(DOMAIN shutdown_senders) = NumFolders

\* C4: start_idle(A) leaves the registry with exactly the keys "A:folder", one
\* per monitored folder, for A; a following stop_idle(A) removes them all, and
\* leaves the registry empty when no other account is watched.
C4_StartThenStopKeys ==
    LET A == call[1].account_id
        keysOf(a) == {k \in DOMAIN shutdown_senders :
                          chan[shutdown_senders[k]].account_id = a}
    IN  /\ (call[1].op = "start_idle" /\ call[1].pc = "done") =>
               /\ keysOf(A) = {A \o ":" \o f : f \in Folders}
               /\ Cardinality(keysOf(A)) = NumFolders
        /\ (call[1].op = "stop_idle" /\ call[1].pc = "done") =>
               /\ keysOf(A) = {}
               /\ \A f \in Folders : (A \o ":" \o f) \notin DOMAIN shutdown_senders
               /\ (\A b \in AccountIds \ {A} : keysOf(b) = {}) =>
                      shutdown_senders = EmptyRegistry

C4_Witness ==
    /\ call[1].op = "stop_idle" /\ call[1].pc = "done"
    /\ shutdown_senders = EmptyRegistry
    /\ Len(chan) = NumFolders
    /\ \A w \in Watchers : chan[w].account_id = call[1].account_id /\ chan[w].shutdown

\* C5: no watcher exists without its registration: every unsignalled watcher
\* task has its own sender stored under its "account_id:folder" key.
C5_UnsignalledIsRegistered ==
    \A w \in Watchers :
        Unsignalled(w) =>
            LET k == chan[w].account_id \o ":" \o chan[w].folder
            IN  k \in DOMAIN shutdown_senders /\ shutdown_senders[k] = w

\* C6: whenever a registration has left the registry, the watcher it belonged
\* to eventually reaches Stopped.
C6_RemovedEventuallyStops ==
    \A w \in 1..MaxChannels :
        (w \in Watchers /\ ~Registered(w)) ~> (w \in Watchers /\ Stopped(w))

(***************************************************************************)
(* Properties of credential resolution                                     *)
(***************************************************************************)
Returned(r) == resolver[r].pc = "done"
ReturnedOk(r) == Returned(r) /\ resolver[r].result[1].ok

\* the token set the call read was expired by the 60-second rule when checked
ReadExpired(r) ==
    /\ resolver[r].tokens # None
    /\ resolver[r].tokens[1].expires_at <= resolver[r].checked_at + 60

ReadFresh(r) ==
    /\ resolver[r].tokens # None
    /\ resolver[r].tokens[1].expires_at > resolver[r].checked_at + 60

\* C7: a call that read a token set with expires_at <= now + 60s has attempted
\* a refresh before it returns credentials; one that read a token set with
\* expires_at > now + 60s makes no refresh call and returns credentials built
\* from the stored access token.
C7_RefreshIffExpired ==
    \A r \in Resolvers :
        /\ (ReturnedOk(r) /\ ReadExpired(r)) =>
               /\ resolver[r].refresh_calls = 1
               /\ resolver[r].refreshed = "ok"
        /\ (resolver[r].pc # "idle" /\ ReadFresh(r)) =>
               /\ resolver[r].refresh_calls = 0
               /\ ReturnedOk(r)
               /\ resolver[r].result[1].val.kind = "OAuth2"
               /\ resolver[r].result[1].val.access_token =
                      resolver[r].tokens[1].access_token

C7_Witness ==
    \E r \in Resolvers :
        /\ ReturnedOk(r) /\ ReadExpired(r)
        /\ resolver[r].tokens[1].expires_at = resolver[r].checked_at + 60
        /\ resolver[r].refresh_calls = 1

\* C8: a token set with no refresh_token and expires_at <= now + 60s makes the
\* call fail with the re-authentication error, with no refresh call and no
\* write to the credential store.
C8_NoRefreshTokenNeedsReauth ==
    \A r \in Resolvers :
        (ReadExpired(r) /\ resolver[r].tokens[1].refresh_token = None) =>
            /\ Returned(r)
            /\ ~resolver[r].result[1].ok
            /\ resolver[r].result[1].err =
                   "Token expired and no refresh token available. Please re-authenticate."
            /\ resolver[r].refresh_calls = 0
            /\ resolver[r].refreshed = "no"
            /\ resolver[r].wrote_account = "no"
            /\ resolver[r].wrote_legacy = "no"

C8_Witness ==
    \E r \in Resolvers :
        /\ ReadExpired(r) /\ resolver[r].tokens[1].refresh_token = None
        /\ Returned(r) /\ ~resolver[r].result[1].ok

\* C9: when the refresh call fails the call returns the refresh-failed error
\* and writes neither the account-scoped nor the legacy slot.
C9_RefreshFailureLeavesStore ==
    /\ [](\A r \in Resolvers :
              resolver[r].refreshed = "err" =>
                  /\ Returned(r)
                  /\ ~resolver[r].result[1].ok
                  /\ resolver[r].result[1].err = "Token refresh failed"
                  /\ resolver[r].wrote_account = "no"
                  /\ resolver[r].wrote_legacy = "no")
    /\ [][\A r \in Resolvers :
              (resolver[r].refreshed = "no" /\ resolver'[r].refreshed = "err") =>
                  /\ account_tokens' = account_tokens
                  /\ legacy_tokens' = legacy_tokens]_vars

C9_Witness ==
    \E r \in Resolvers :
        /\ resolver[r].refreshed = "err" /\ Returned(r)
        /\ stored_tokens(resolver[r].account_id) = resolver[r].tokens

\* C10: after a successful refresh the call writes the new token set to the
\* account-scoped slot and to the legacy slot, and returns credentials built
\* from the new access token whether or not either write succeeded.
C10_PersistenceFailureSwallowed ==
    /\ [](\A r \in Resolvers :
              (resolver[r].refreshed = "ok" /\ Returned(r)) =>
                  /\ resolver[r].wrote_account \in {"stored", "failed"}
                  /\ resolver[r].wrote_legacy \in {"stored", "failed"}
                  /\ resolver[r].result[1].ok
                  /\ resolver[r].result[1].val.kind = "OAuth2"
                  /\ resolver[r].result[1].val.access_token =
                         resolver[r].new_tokens[1].access_token)
    /\ [][\A r \in Resolvers :
              /\ (resolver[r].wrote_account = "no"
                      /\ resolver'[r].wrote_account = "stored") =>
                     account_tokens'[resolver[r].account_id] = resolver[r].new_tokens
              /\ (resolver[r].wrote_legacy = "no"
                      /\ resolver'[r].wrote_legacy = "stored") =>
                     legacy_tokens' = resolver[r].new_tokens]_vars

C10_Witness ==
    \E r \in Resolvers :
        /\ resolver[r].refreshed = "ok" /\ ReturnedOk(r)
        /\ resolver[r].wrote_account = "failed"
        /\ resolver[r].wrote_legacy = "failed"
        /\ resolver[r].result[1].val.access_token # resolver[r].tokens[1].access_token

(***************************************************************************)
(* Properties of get_active_client                                         *)
(***************************************************************************)
\* task t enters get_active_client in this step
Calls(t) == task[t].pc \in {"idle", "done"} /\ task'[t] # task[t]

\* task t takes a step of get_active_client
Steps(t) == task'[t] # task[t]

\* the stored token set of an OAuth2 account is within 60 seconds of its
\* expiry, or past it, at time t
TokenStale(a, t) ==
    /\ auth_type(a) = "oauth2"
    /\ stored_tokens(a) # None
    /\ stored_tokens(a)[1].expires_at - t <= 60

TokenMissing(a) == auth_type(a) = "oauth2" /\ stored_tokens(a) = None

Succeeded(t) == task[t].pc = "done" /\ task[t].result[1].ok

C12_ExpiredTokenEvicts ==
    /\ [][\A t \in Tasks :
              /\ ( /\ Calls(t)
                   /\ task'[t].account_id # ""
                   /\ get_client(task'[t].account_id) # None
                   /\ TokenStale(task'[t].account_id, now) )
                 => /\ task'[t].pc = "evict"
                    /\ task'[t].cached = get_client(task'[t].account_id)
              /\ (Steps(t) /\ task[t].pc = "evict")
                 => /\ task'[t].pc = "lookup"
                    /\ get_client(task[t].account_id)' = None]_vars
    /\ [](\A t \in Tasks :
              (Succeeded(t) /\ task[t].is_expired /\ task[t].cached # None) =>
                  /\ task[t].result[1].val > task[t].cached[1]
                  /\ handles[task[t].result[1].val].account_id = task[t].account_id)

C12_Witness ==
    \E t \in Tasks :
        /\ Succeeded(t) /\ task[t].is_expired /\ task[t].cached # None
        /\ task[t].evicted = task[t].cached
        /\ task[t].created = Some(task[t].result[1].val)

\* C15: no call of get_active_client returns "Failed to store client": the
\* lookup that follows add_client always finds a handle, whatever other
\* calls for the same account do on other worker threads.
C15_NoClientStoredUnreachable ==
    \A t \in Tasks : task[t].result # Some(NoClientStored)

(***************************************************************************)
(* Properties of the email id                                              *)
(***************************************************************************)
\* positions of the ':' of a text, and the text after its second ':'
Colons(t) == {i \in 1..Len(t) : SubSeq(t, i, i) = ":"}
SecondColon(t) ==
    CHOOSE i \in Colons(t) : Cardinality({j \in Colons(t) : j < i}) = 1
Remainder(t) == SubSeq(t, SecondColon(t) + 1, Len(t))

\* a decimal numeral without its sign and without its leading zeros
Unsigned(n) == IF n # "" /\ SubSeq(n, 1, 1) = "+" THEN SubSeq(n, 2, Len(n)) ELSE n
Significant(n) ==
    LET nz == {i \in 1..Len(n) : SubSeq(n, i, i) # "0"}
    IN  IF nz = {} THEN ""
        ELSE SubSeq(n, CHOOSE i \in nz : \A j \in nz : i <= j, Len(n))

AllDigits(n) == \A i \in 1..Len(n) : SubSeq(n, i, i) \in {Digits[d] : d \in 1..10}

\* x <= y for two digit strings of one length
NumeralLeq(x, y) ==
    \/ x = y
    \/ \E i \in 1..Len(x) :
           /\ SubSeq(x, 1, i - 1) = SubSeq(y, 1, i - 1)
           /\ digit_value(SubSeq(x, i, i)) < digit_value(SubSeq(y, i, i))

\* n is written as an unsigned integer that a u32 holds: decimal digits, at
\* most one '+' in front, a value up to 4294967295
IsU32Numeral(n) ==
    /\ Unsigned(n) # ""
    /\ AllDigits(Unsigned(n))
    /\ LET sig == Significant(Unsigned(n))
       IN  \/ Len(sig) < 10
           \/ Len(sig) = 10 /\ NumeralLeq(sig, "4294967295")

\* C13: for every account id and folder without ':' and every u32 uid,
\* parsing the text "account_id:folder:uid" gives back exactly that account
\* id, folder and uid.
C13_DecodeInvertsEncode ==
    codec.stage = "decoded" =>
        /\ Colons(codec.triple[1][1]) = {} /\ Colons(codec.triple[1][2]) = {}
        /\ codec.parsed = codec.triple

C13_Witness ==
    /\ codec.stage = "decoded"
    /\ codec.triple[1][3] = U32(Limb - 1, Limb - 1)
    /\ codec.text = "ab:[Gmail]/Sent Mail:4294967295"
    /\ codec.parsed = codec.triple

\* C14: parse_email_id returns None for a text with fewer than two ':' and
\* for a text whose part after the second ':' is not an unsigned integer of
\* u32 range (a part with a further ':' included); when it returns a triple,
\* the triple is the text before the first ':', the text between the first
\* two ':' and the value the rest denotes.
C14_MalformedIsNone ==
    codec.stage = "parsed" =>
        /\ Cardinality(Colons(codec.text)) < 2 => codec.parsed = None
        /\ (Cardinality(Colons(codec.text)) >= 2 /\ ~IsU32Numeral(Remainder(codec.text)))
               => codec.parsed = None
        /\ codec.parsed # None =>
               LET c1 == CHOOSE i \in Colons(codec.text) : \A j \in Colons(codec.text) : i <= j
                   sig == Significant(Unsigned(Remainder(codec.text)))
               IN  /\ codec.parsed[1][1] = SubSeq(codec.text, 1, c1 - 1)
                   /\ codec.parsed[1][2] =
                          SubSeq(codec.text, c1 + 1, SecondColon(codec.text) - 1)
                   /\ to_string(codec.parsed[1][3]) = IF sig = "" THEN "0" ELSE sig

C14_Witness ==
    /\ codec.stage = "parsed"
    /\ codec.text = "a:INBOX:12:34"
    /\ codec.parsed = None

(***************************************************************************)
(* Properties of idle_loop                                                 *)
(***************************************************************************)
\* the idle_loop of channel w moves to another position in this step
Moves(w) == chan'[w].pc # chan[w].pc

\* idle_wait returns to the idle_loop of channel w in this step
WaitReturns(w) == chan[w].pc = "wait" /\ Moves(w)

OwnEvent(w) == [account_id |-> chan[w].account_id, folder |-> chan[w].folder]

\* C16: an idle_loop ends only at the shutdown check at the top of the loop,
\* on a signal that was sent: failed credentials, a failed connect and a
\* failed wait all lead to the sleep and from there back to the top, and a
\* loop that was never signalled is never stopped and, after each failure,
\* comes back to build credentials again.
C16_StopsOnlyOnSignal ==
    /\ [](\A w \in Watchers : Stopped(w) => chan[w].shutdown)
    /\ [][\A w \in Watchers :
              /\ (Moves(w) /\ chan'[w].pc = "stopped")
                     => chan[w].pc = "top" /\ chan[w].shutdown
              /\ (Moves(w) /\ chan[w].pc = "top" /\ ~chan[w].shutdown)
                     => chan'[w].pc = "creds"
              /\ (Moves(w) /\ chan[w].pc \in {"creds", "connect", "wait"})
                     => chan'[w].pc \in {"connect", "wait", "top", "sleep"}
              /\ (Moves(w) /\ chan[w].pc = "sleep") => chan'[w].pc = "top"]_vars
    /\ \A w \in 1..NumFolders :
           (w \in Watchers /\ chan[w].pc = "sleep")
               ~> (w \in Watchers /\ (chan[w].pc = "creds" \/ chan[w].shutdown))

C16_Witness ==
    \E w, v \in Watchers :
        /\ Stopped(w)
        /\ chan[v].pc = "sleep" /\ chan[v].shutdown /\ chan[v].account_id = "ab"
        /\ app_passwords["ab"] # None

\* C17: when idle_wait returns an error the loop drops its client and
\* sleeps; after the sleep it is at the top of the loop, from where, unless
\* signalled, it builds credentials again, and only credentials built in
\* that pass lead to a connect call, and only a connect call that succeeded
\* leads to the next idle_wait.
C17_ErrorForcesReconnect ==
    [][\A w \in Watchers :
          /\ (WaitReturns(w) /\ wait_result'[w] = "error")
                 => /\ chan'[w].pc = "sleep"
                    /\ chan'[w].creds = None
                    /\ events' = events
          /\ (Moves(w) /\ chan[w].pc = "sleep")
                 => chan'[w].pc = "top" /\ chan'[w].creds = None
          /\ (Moves(w) /\ chan[w].pc = "top")
                 => /\ chan'[w].pc = IF chan[w].shutdown THEN "stopped" ELSE "creds"
                    /\ chan'[w].creds = None
          /\ (Moves(w) /\ chan'[w].pc = "connect")
                 => /\ chan[w].pc = "creds"
                    /\ chan'[w].creds = idle_credentials(chan[w].account_id)
          /\ (Moves(w) /\ chan'[w].pc = "wait")
                 => chan[w].pc = "connect" /\ chan'[w].creds = chan[w].creds]_vars

C17_Witness ==
    \E w \in Watchers :
        /\ chan[w].pc = "top" /\ ~chan[w].shutdown /\ wait_result[w] = "error"
        /\ events = <<OwnEvent(w)>>

\* C18: after idle_wait returned on a timeout, the loop makes no connect
\* call and sleeps no retry delay before it is in idle_wait again.
C18_TimeoutReissuesWithoutReconnect ==
    [][\A w \in Watchers :
          (wait_result[w] = "timeout" /\ Moves(w))
              => chan'[w].pc \notin {"connect", "sleep"}]_vars

\* C19: the event sink receives an event exactly in the step in which an
\* idle_wait returns new mail, one event for that return, and it names the
\* account and folder of the loop that waited; a return on a timeout or an
\* error adds no event, and a stopped loop adds none.
C19_EventIffNewMail ==
    [][/\ events' # events =>
              \E w \in Watchers :
                  /\ WaitReturns(w) /\ wait_result'[w] = "new_mail"
                  /\ events' = Append(events, OwnEvent(w))
       /\ \A w \in Watchers :
              /\ (WaitReturns(w) /\ wait_result'[w] = "new_mail")
                     => events' = Append(events, OwnEvent(w))
              /\ (WaitReturns(w) /\ wait_result'[w] \in {"timeout", "error"})
                     => events' = events
              /\ Stopped(w) => (chan'[w] = chan[w] /\ (events' # events =>
                                   \E v \in Watchers \ {w} : WaitReturns(v)))]_vars

C19_Witness ==
    \E w \in Watchers :
        /\ events = <<OwnEvent(w)>>
        /\ chan[w].folder = MONITORED_FOLDERS[2]
        /\ wait_result[w] = "timeout"

\* C20: whenever an idle_loop of an OAuth2 account goes on to connect while
\* the stored token is expired by the 60-second rule, a token was refreshed
\* for it and the credentials it connects with do not hold the stored
\* access token.
C20_WatcherRefreshesExpiredToken ==
    [][\A w \in Watchers :
          ( /\ chan[w].pc = "creds" /\ chan'[w].pc = "connect"
            /\ TokenStale(chan[w].account_id, now) )
          => /\ issued' > issued
             /\ chan'[w].creds[1].access_token #
                    stored_tokens(chan[w].account_id)[1].access_token]_vars

C24_StopAllSignalsEveryWatcher ==
    [][\A c \in Callers :
          (call[c].pc = "stop_all" /\ call'[c].pc = "done")
              => /\ shutdown_senders' = EmptyRegistry
                 /\ \A w \in Watchers : Registered(w) => chan'[w].shutdown
                 /\ \A w \in Watchers : chan'[w].shutdown]_vars

(***************************************************************************)
(* Properties of the insertion into the session cache                      *)
(***************************************************************************)
\* task t puts a handle into the cache in this step
Inserts(t) ==
    /\ Steps(t)
    /\ task[t].account_id \in AccountIds
    /\ clients'[task[t].account_id] # None
    /\ clients'[task[t].account_id] # clients[task[t].account_id]

\* the call of task t has evicted and its resolution has failed
EvictedThenFailed(t) ==
    /\ task[t].pc = "done"
    /\ task[t].is_expired
    /\ task[t].resolutions = 1
    /\ ~resolver[t].result[1].ok

\* C26: get_active_client puts a handle into the cache only from the step
\* that follows a successful credential resolution, with the credentials
\* that resolution returned; a call that has run remove_client and whose
\* resolution fails returns that error, has created no handle, and leaves
\* the account without a cached handle (the evicted handle is not put back).
C26_InsertOnlyAfterResolution ==
    /\ [][\A t \in Tasks :
              /\ Inserts(t) =>
                    /\ task[t].pc = "create"
                    /\ task[t].credentials # None
                    /\ handles'[clients'[task[t].account_id][1]].credentials
                           = task[t].credentials[1]
                    /\ auth_type(task[t].account_id) = "oauth2" =>
                           /\ resolver[t].pc = "done"
                           /\ resolver[t].result = Some(Ok(task[t].credentials[1]))
              /\ (Steps(t) /\ task[t].pc = "resolving" /\ resolver[t].pc = "done"
                     /\ ~resolver[t].result[1].ok)
                    => UNCHANGED <<clients, handles>>]_vars
    /\ [](\A t \in Tasks :
              EvictedThenFailed(t) =>
                  /\ task[t].result = resolver[t].result
                  /\ task[t].created = None
                  /\ get_client(task[t].account_id) = None)

C26_Witness ==
    \E t \in Tasks :
        /\ EvictedThenFailed(t)
        /\ task[t].evicted # None
        /\ get_client(task[t].account_id) = None

\* the handles cached for account a
CachedHandles(a) ==
    {h \in 1..Len(handles) : handles[h].account_id = a /\ get_client(a) = Some(h)}

\* task t returns from get_active_client with a handle in this step
ReturnsHandle(t) ==
    /\ Steps(t)
    /\ task'[t].pc = "done"
    /\ task'[t].result[1].ok

\* C27: whatever the interleaving of the get_active_client calls for an
\* account, the cache holds at most one handle for it, a handle built for
\* that account, and a call that returns a handle returns the handle that
\* the cache held for the account when the call made its last lookup (at
\* lines 112-115 or at lines 153-155), be it the one the call created or not.
C27_ReturnsCachedHandle ==
    /\ [][\A t \in Tasks :
              ReturnsHandle(t) =>
                  /\ task[t].pc \in {"lookup", "final"}
                  /\ get_client(task[t].account_id) = Some(task'[t].result[1].val)
                  /\ clients' = clients]_vars
    /\ [](\A a \in AccountIds :
              /\ Cardinality(CachedHandles(a)) <= 1
              /\ get_client(a) # None => CachedHandles(a) = {get_client(a)[1]})

C27_Witness ==
    \E t \in Tasks :
        /\ Succeeded(t)
        /\ task[t].created # None
        /\ task[t].created[1] # task[t].result[1].val
        /\ get_client(task[t].account_id) = Some(task[t].result[1].val)

(***************************************************************************)
(* Properties of concurrent credential resolutions                         *)
(***************************************************************************)
\* resolutions r1 and r2 of one account have read the same expired token
\* set, the refresh call of each has returned a token set, both have
\* returned, and each of their four writes has reached the store
RacedAndStored(r1, r2) ==
    /\ r1 # r2
    /\ resolver[r1].pc = "done" /\ resolver[r2].pc = "done"
    /\ resolver[r1].account_id = resolver[r2].account_id
    /\ resolver[r1].tokens = resolver[r2].tokens
    /\ resolver[r1].refreshed = "ok" /\ resolver[r2].refreshed = "ok"
    /\ \A r \in {r1, r2} :
           resolver[r].wrote_account = "stored" /\ resolver[r].wrote_legacy = "stored"

\* each of the two returned the credentials of the token set of its own
\* refresh call
OwnCredentials(r) ==
    resolver[r].result =
        Some(Ok(OAuth2(email_of(resolver[r].account_id),
                       resolver[r].new_tokens[1].access_token)))

\* slot holds a token set that a refresh call returned
HoldsRefreshed(slot) ==
    /\ slot # None
    /\ slot[1].access_token \in {100 + n : n \in 1..issued}
    /\ ~is_expired(slot[1], now)

OperationsOn(h) == {t \in Tasks : task[t].pc = "io" /\ client_arc(t) = h}

\* the tasks that are inside the critical section of handle h
GuardsOf(h) == {t \in Tasks : task[t].pc \in {"locked", "io"} /\ client_arc(t) = h}

\* C22: no handle has two protocol operations in flight; a task calls and
\* awaits protocol operations only while it owns the mutex of the handle it
\* uses, from the lock to the return of the command, whether the handle is
\* the cached one, one that other tasks hold too, or one that has been
\* evicted from the cache.
C22_OneOperationPerHandle ==
    /\ [](\A h \in 1..Len(handles) :
              /\ Cardinality(OperationsOn(h)) <= 1
              /\ Cardinality(GuardsOf(h)) <= 1
              /\ \A t \in GuardsOf(h) : handles[h].mutex = t)
    /\ [][\A t \in Tasks :
              /\ (Steps(t) /\ task'[t].pc = "io") => task[t].pc = "locked"
              /\ (Steps(t) /\ task[t].pc = "io") => task'[t].pc = "locked"
              /\ (Steps(t) /\ task[t].pc = "locked" /\ task'[t].pc # "io")
                     => handles'[client_arc(t)].mutex = 0]_vars

\* one task has an operation in flight on a handle while another task that
\* got the same handle from the cache waits for its mutex
C22_Witness ==
    \E t1, t2 \in Tasks :
        /\ t1 # t2
        /\ task[t1].pc = "io"
        /\ HoldsHandle(t2)
        /\ client_arc(t2) = client_arc(t1)
        /\ handles[client_arc(t1)].mutex = t1

\* a task has an operation in flight on a handle that has been evicted
EvictedHandleInUse ==
    \E t \in Tasks :
        /\ task[t].pc = "io"
        /\ get_client(task[t].account_id) # Some(client_arc(t))

(***************************************************************************)
(* Properties of the two locks                                             *)
(***************************************************************************)
HoldsRegistryLock(k) == call[k].guard
HoldsCacheLock(k) == task[k].guard

\* worker k is suspended in a network call: a protocol operation on a
\* handle, or the token refresh call of its credential resolution.  The
\* connect and the wait of an idle_loop belong to the watcher tasks, which
\* take neither lock.
AtNetworkSuspension(k) ==
    \/ task[k].pc = "io"
    \/ task[k].pc = "resolving" /\ resolver[k].pc = "refresh"

LockHeldDuringOthersIO ==
    \E k1, k2 \in Workers :
        /\ HoldsCacheLock(k1)
        /\ task[k2].pc = "io"

====
